---- MODULE Spec2Model ----
(***************************************************************************)
(* The List variant of the Starlark value runtime (src/values/list.rs).    *)
(*                                                                         *)
(* A Value is a shared handle to a heap payload.  The heap is a sequence   *)
(* of payloads; a handle to payload i is RefV(i), so two holders of the    *)
(* same payload are two occurrences of RefV(i).  Scalars are immediate.    *)
(***************************************************************************)
EXTENDS Integers, Sequences, FiniteSets, TLC

VARIABLES
    heap,            \* the payloads allocated so far, in allocation order
    last,            \* the last operation and its result: [op, res]
    status,          \* "running", or "aborted" once an operation did not return
    freezeReturned,  \* history: the lists on which freeze() has returned
    sliced           \* history: <<source list, tuple>> of every slice taken

vars == <<heap, last, status, freezeReturned, sliced>>

\* ---------------------------------------------------------------- bounds
\* payloads in the heap
MaxObjs == 3
\* elements of one list
MaxLen == 2
\* integers held by lists are 0..MaxInt
MaxInt == 1
\* elements of all payloads together
MaxCells == 3
\* elements of an operand list of SpecOps
MaxOpsLen == 3

\* ---------------------------------------------------------------- values
IntV(n) == [k |-> "int", n |-> n]
BoolV(n) == [k |-> "bool", n |-> n]
NoneV == [k |-> "none", n |-> 0]
RefV(i) == [k |-> "ref", n |-> i]

Ids(h) == 1..Len(h)
Refs(h) == {RefV(i) : i \in Ids(h)}
\* what a list may hold in the model: small integers and handles
ElemVals(h) == {IntV(n) : n \in 0..MaxInt} \cup Refs(h)
\* what may be passed as an index
IndexVals == {IntV(n) : n \in (0 - MaxLen - 1)..MaxLen} \cup {NoneV}

ListIds(h) == {i \in Ids(h) : h[i].kind = "list"}

SeqsUpTo(S, n) == UNION {[1..m -> S] : m \in 0..n}

\* List { frozen, content }
ListPayload(frozen, content) == [kind |-> "list", frozen |-> frozen, content |-> content]
\* Tuple: immutable by construction
TuplePayload(content) == [kind |-> "tuple", frozen |-> TRUE, content |-> content]

\* From<Vec<T>> for List: frozen = false, the elements pushed in order
from(a) == ListPayload(FALSE, a)

get_type(h, v) ==
    CASE v.k = "int" -> "int"
      [] v.k = "bool" -> "boolean"
      [] v.k = "none" -> "NoneType"
      [] OTHER -> h[v.n].kind

\* Value::to_int: defined for integers and booleans (false = 0, true = 1)
to_int(v) ==
    IF v.k \in {"int", "bool"} THEN [err |-> "ok", i |-> v.n]
    ELSE [err |-> "IncorrectParameterType", i |-> 0]

\* Value::convert_index: negative indices count from the end; out of range
\* after that is an error
convert_index(v, len) ==
    LET x == to_int(v) IN
    IF x.err # "ok" THEN x
    ELSE LET i == IF x.i < 0 THEN len + x.i ELSE x.i IN
         IF i < 0 \/ i >= len THEN [err |-> "IndexOutOfBound", i |-> i]
         ELSE [err |-> "ok", i |-> i]

\* ---------------------------------------------------------------- set_at

\* set_at with its two arguments exchanged: the index is what gets stored
set_at_swap(h, l, index, new_value) ==
    IF h[l].frozen THEN [heap |-> h, res |-> "CannotMutateImmutableValue"]
    ELSE LET c == convert_index(index, Len(h[l].content)) IN
         IF c.err # "ok" THEN [heap |-> h, res |-> c.err]
         ELSE [heap |-> [h EXCEPT ![l].content[c.i + 1] = index], res |-> "ok"]

\* set_at that looks at the frozen flag only after it has written
set_at_late_check(h, l, index, new_value) ==
    LET c == convert_index(index, Len(h[l].content)) IN
    IF c.err # "ok" THEN [heap |-> h, res |-> c.err]
    ELSE LET w == [h EXCEPT ![l].content[c.i + 1] = new_value] IN
         IF h[l].frozen THEN [heap |-> w, res |-> "CannotMutateImmutableValue"]
         ELSE [heap |-> w, res |-> "ok"]

\* List::set_at
set_at(h, l, index, new_value) ==
    IF h[l].frozen THEN [heap |-> h, res |-> "CannotMutateImmutableValue"]
    ELSE LET c == convert_index(index, Len(h[l].content)) IN
         IF c.err # "ok" THEN [heap |-> h, res |-> c.err]
         ELSE [heap |-> [h EXCEPT ![l].content[c.i + 1] = new_value], res |-> "ok"]

\* ---------------------------------------------------------------- freeze
\* Value::freeze takes exclusive access to the payload for the whole call;
\* borrowed is the set of payloads under exclusive access on the call stack.
exclusive_access(borrowed, id) == id \notin borrowed

RECURSIVE freeze_value(_, _, _), freeze_from(_, _, _, _)

\* a freeze that sets the flag and leaves the elements alone
freeze_from_shallow(st, id, i, borrowed) == st

\* the loop of List::freeze from element i on; st = [heap, panic]
freeze_from(st, id, i, borrowed) ==
    IF st.panic \/ i > Len(st.heap[id].content) THEN st
    ELSE freeze_from(freeze_value(st, st.heap[id].content[i], borrowed), id, i + 1, borrowed)

\* List::freeze (Tuple::freeze: the same without the flag)
freeze(st, id, borrowed) ==
    freeze_from([st EXCEPT !.heap[id].frozen = TRUE], id, 1, borrowed)

\* x.borrow_mut().freeze() on one element.  On a payload that is already
\* under exclusive access the call does not return: the second borrow panics
\* (let through, it would freeze the same payload again without end).  The
\* flags set so far stay set.
freeze_value(st, v, borrowed) ==
    IF v.k # "ref" THEN st
    ELSE IF ~exclusive_access(borrowed, v.n) THEN [st EXCEPT !.panic = TRUE]
    ELSE freeze(st, v.n, borrowed \cup {v.n})

\* ---------------------------------------------------------------- to_str
RECURSIVE to_repr(_, _, _), join_repr(_, _, _, _)

\* the fold of List::to_str: elements' to_repr separated by ", "
join_repr(h, content, i, path) ==
    IF i > Len(content) THEN ""
    ELSE (IF i = 1 THEN "" ELSE ", ") \o to_repr(h, content[i], path)
         \o join_repr(h, content, i + 1, path)

\* Value::to_repr; List::to_str renders "[e0, e1]".  path holds the payloads
\* being rendered: meeting one again is a recursion that never returns,
\* written "<overflow>".
to_repr(h, v, path) ==
    CASE v.k = "int" -> ToString(v.n)
      [] v.k = "bool" -> IF v.n = 1 THEN "True" ELSE "False"
      [] v.k = "none" -> "None"
      [] OTHER ->
           IF v.n \in path THEN "<overflow>"
           ELSE IF h[v.n].kind = "list"
                THEN "[" \o join_repr(h, h[v.n].content, 1, path \cup {v.n}) \o "]"
                ELSE "(" \o join_repr(h, h[v.n].content, 1, path \cup {v.n}) \o ")"

to_str(h, l) == to_repr(h, RefV(l), {})

\* ---------------------------------------------------------------- compare
Reverse(o) == CASE o = "Less" -> "Greater" [] o = "Greater" -> "Less" [] OTHER -> o

\* the fixed order of the kinds, by type name
KindOrder == <<"NoneType", "boolean", "int", "list", "tuple">>
KindRank(t) == CHOOSE i \in 1..Len(KindOrder) : KindOrder[i] = t

IntCompare(a, b) == IF a < b THEN "Less" ELSE IF a > b THEN "Greater" ELSE "Equal"

\* default_compare: values of different kinds are ordered by kind
default_compare(h, v1, v2) == IntCompare(KindRank(get_type(h, v1)), KindRank(get_type(h, v2)))

RECURSIVE compare_value(_, _, _, _), compare_from(_, _, _, _, _)

\* the loop with the two exhausted-iterator arms exchanged
compare_from_swapped(h, c1, c2, i, path) ==
    IF i > Len(c1) /\ i > Len(c2) THEN "Equal"
    ELSE IF i > Len(c1) THEN "Greater"
    ELSE IF i > Len(c2) THEN "Less"
    ELSE LET r == compare_value(h, c1[i], c2[i], path) IN
         IF r # "Equal" THEN r ELSE compare_from(h, c1, c2, i + 1, path)

\* the loop of List::compare over the two iterators, from position i on
compare_from(h, c1, c2, i, path) ==
    IF i > Len(c1) /\ i > Len(c2) THEN "Equal"
    ELSE IF i > Len(c1) THEN "Less"
    ELSE IF i > Len(c2) THEN "Greater"
    ELSE LET r == compare_value(h, c1[i], c2[i], path) IN
         IF r # "Equal" THEN r ELSE compare_from(h, c1, c2, i + 1, path)

\* Value::compare.  path holds the pairs being compared: meeting one again is
\* a recursion that never returns, written "Overflow".
compare_value(h, v1, v2, path) ==
    IF get_type(h, v1) # get_type(h, v2) THEN default_compare(h, v1, v2)
    ELSE IF v1.k # "ref" THEN IntCompare(v1.n, v2.n)
    ELSE IF <<v1.n, v2.n>> \in path THEN "Overflow"
    ELSE compare_from(h, h[v1.n].content, h[v2.n].content, 1, path \cup {<<v1.n, v2.n>>})

\* List::compare
compare(h, l, other) ==
    IF get_type(h, other) = "list"
    THEN compare_from(h, h[l].content, h[other.n].content, 1, {<<l, other.n>>})
    ELSE default_compare(h, RefV(l), other)

\* ---------------------------------------------------------------- slice
SliceVals == {IntV(n) : n \in (0 - MaxLen)..MaxLen} \cup {NoneV}

\* Value::convert_slice_indices: an absent bound takes the default of the
\* stride's sign, a negative bound counts from the end, and the bound is
\* clamped to the list
convert_slice_indices(len, start, stop, stride) ==
    LET s3 == IF stride.k = "none" THEN [err |-> "ok", i |-> 1] ELSE to_int(stride)
        neg == s3.i < 0
        resolve(b, def) ==
            IF b.k = "none" THEN def
            ELSE LET x == IF b.n < 0 THEN b.n + len ELSE b.n IN
                 IF neg THEN (IF x < 0 THEN 0 - 1 ELSE IF x >= len THEN len - 1 ELSE x)
                 ELSE (IF x < 0 THEN 0 ELSE IF x > len THEN len ELSE x)
    IN
    IF s3.err # "ok" \/ (start.k \notin {"none", "int"}) \/ (stop.k \notin {"none", "int"})
    THEN [err |-> "IncorrectParameterType", start |-> 0, stop |-> 0, stride |-> 0]
    ELSE IF s3.i = 0
    THEN [err |-> "IndexOutOfBound", start |-> 0, stop |-> 0, stride |-> 0]
    ELSE [err |-> "ok",
          start |-> resolve(start, IF neg THEN len - 1 ELSE 0),
          stop |-> resolve(stop, IF neg THEN 0 - 1 ELSE len),
          stride |-> s3.i]

\* iter.skip(n as usize): a negative n wraps to more than any length
skip_usize(s, n) == IF n < 0 \/ n >= Len(s) THEN << >> ELSE SubSeq(s, n + 1, Len(s))
\* iter.take(n as usize)
take_usize(s, n) == IF n < 0 \/ n >= Len(s) THEN s ELSE SubSeq(s, 1, n)

\* enumerate().filter_map(|x| if 0 == x.0 % astride ...)
filter_stride(s, astride) ==
    [j \in 1..((Len(s) + astride - 1) \div astride) |-> s[(j - 1) * astride + 1]]

reverse(s) == [j \in 1..Len(s) |-> s[Len(s) + 1 - j]]

\* the body of List::slice on the resolved indices
slice_vector(content, start, stop, stride) ==
    LET low == IF stride < 0 THEN stop + 1 ELSE start
        take == IF stride < 0 THEN start - stop ELSE stop - start
        astride == IF stride < 0 THEN 0 - stride ELSE stride
        v == filter_stride(take_usize(skip_usize(content, low), take), astride)
    IN IF stride < 0 THEN reverse(v) ELSE v

\* a slice that hands back the source itself instead of a new Tuple
slice_alias(h, l, start, stop, stride) ==
    LET r == convert_slice_indices(Len(h[l].content), start, stop, stride) IN
    IF r.err # "ok" THEN [heap |-> h, res |-> r.err, out |-> 0]
    ELSE [heap |-> h, res |-> "ok", out |-> l]

\* List::slice: [heap, res, out]
slice(h, l, start, stop, stride) ==
    LET r == convert_slice_indices(Len(h[l].content), start, stop, stride) IN
    IF r.err # "ok" THEN [heap |-> h, res |-> r.err, out |-> 0]
    ELSE [heap |-> Append(h, TuplePayload(slice_vector(h[l].content, r.start, r.stop, r.stride))),
          res |-> "ok", out |-> Len(h) + 1]

\* ---------------------------------------------------------------- add, mul
\* add with the operand's elements first
add_reversed(h, l, other) ==
    IF get_type(h, other) = "list"
    THEN [heap |-> Append(h, ListPayload(FALSE, h[other.n].content \o h[l].content)),
          res |-> "ok", out |-> Len(h) + 1]
    ELSE [heap |-> h, res |-> "IncorrectParameterType", out |-> 0]

\* List::add
add(h, l, other) ==
    IF get_type(h, other) = "list"
    THEN [heap |-> Append(h, ListPayload(FALSE, h[l].content \o h[other.n].content)),
          res |-> "ok", out |-> Len(h) + 1]
    ELSE [heap |-> h, res |-> "IncorrectParameterType", out |-> 0]

RECURSIVE repeat(_, _)
\* the loop over 0..=l: one repetition too many
repeat_inclusive(content, l) == IF l < 0 THEN << >> ELSE content \o repeat(content, l - 1)

\* for _i in 0..l { push every element }
repeat(content, l) == IF l <= 0 THEN << >> ELSE content \o repeat(content, l - 1)

\* List::mul
mul(h, l, other) ==
    IF get_type(h, other) = "int" \/ get_type(h, other) = "boolean"
    THEN [heap |-> Append(h, ListPayload(FALSE, repeat(h[l].content, to_int(other).i))),
          res |-> "ok", out |-> Len(h) + 1]
    ELSE [heap |-> h, res |-> "IncorrectParameterType", out |-> 0]

\* operands offered to add, mul and compare
OperandVals(h) == ElemVals(h) \cup {IntV(0 - 1), IntV(2), BoolV(0), BoolV(1), NoneV}

\* ---------------------------------------------------------------- state
NoOp == [op |-> "init", res |-> "ok"]

RECURSIVE Cells(_)
\* the elements held by all payloads of h together
Cells(h) == IF h = << >> THEN 0 ELSE Len(h[Len(h)].content) + Cells(SubSeq(h, 1, Len(h) - 1))

\* the model has room for r's result
Fits(r) ==
    r.res = "ok" /\ r.out > 0 =>
        /\ Len(r.heap) <= MaxObjs
        /\ Len(r.heap[r.out].content) <= MaxLen
        /\ Cells(r.heap) <= MaxCells

Init ==
    /\ heap = << >>
    /\ last = NoOp
    /\ status = "running"
    /\ freezeReturned = {}
    /\ sliced = {}

\* Value::from(vec![...])
NewList(a) ==
    /\ status = "running"
    /\ heap' = Append(heap, from(a))
    /\ last' = [NoOp EXCEPT !.op = "new"]
    /\ UNCHANGED <<status, freezeReturned, sliced>>

\* l.set_at(index, new_value)
SetAt(l, index, new_value) ==
    /\ status = "running"
    /\ LET r == set_at(heap, l, index, new_value) IN
        /\ heap' = r.heap
        /\ last' = [NoOp EXCEPT !.op = "set_at", !.res = r.res]
    /\ UNCHANGED <<status, freezeReturned, sliced>>

\* l.freeze(): a freeze that meets a payload it already holds does not return
Freeze(l) ==
    /\ status = "running"
    /\ LET r == freeze_value([heap |-> heap, panic |-> FALSE], RefV(l), {}) IN
        /\ heap' = r.heap
        /\ status' = IF r.panic THEN "aborted" ELSE "running"
        /\ last' = [NoOp EXCEPT !.op = "freeze", !.res = IF r.panic THEN "panic" ELSE "ok"]
        /\ freezeReturned' = IF r.panic THEN freezeReturned ELSE freezeReturned \cup {l}
    /\ UNCHANGED sliced

\* l.slice(start, stop, stride)
Slice(l, start, stop, stride) ==
    /\ status = "running"
    /\ LET r == slice(heap, l, start, stop, stride) IN
        /\ heap' = r.heap
        /\ last' = [NoOp EXCEPT !.op = "slice", !.res = r.res]
        /\ sliced' = IF r.res = "ok" THEN sliced \cup {<<l, r.out>>} ELSE sliced
    /\ UNCHANGED <<status, freezeReturned>>

\* l.add(other)
Add(l, other) ==
    /\ status = "running"
    /\ LET r == add(heap, l, other) IN
        /\ heap' = r.heap
        /\ last' = [NoOp EXCEPT !.op = "add", !.res = r.res]
    /\ UNCHANGED <<status, freezeReturned, sliced>>

\* l.mul(other)
Mul(l, other) ==
    /\ status = "running"
    /\ LET r == mul(heap, l, other) IN
        /\ heap' = r.heap
        /\ last' = [NoOp EXCEPT !.op = "mul", !.res = r.res]
    /\ UNCHANGED <<status, freezeReturned, sliced>>

\* l.compare(other): a comparison that never returns ends the run
Compare(l, other) ==
    /\ status = "running"
    /\ LET r == compare(heap, l, other) IN
        /\ status' = IF r = "Overflow" THEN "aborted" ELSE "running"
        /\ last' = [NoOp EXCEPT !.op = "compare", !.res = r]
    /\ UNCHANGED <<heap, freezeReturned, sliced>>

Next ==
    \/ /\ Len(heap) < MaxObjs
       /\ \E a \in SeqsUpTo(ElemVals(heap), MaxLen) :
             Cells(heap) + Len(a) <= MaxCells /\ NewList(a)
    \/ \E l \in ListIds(heap), index \in IndexVals, v \in ElemVals(heap) : SetAt(l, index, v)
    \/ \E l \in ListIds(heap) : Freeze(l)
    \/ /\ Len(heap) < MaxObjs
       /\ \E l \in ListIds(heap), start \in SliceVals, stop \in SliceVals, stride \in SliceVals :
             Fits(slice(heap, l, start, stop, stride)) /\ Slice(l, start, stop, stride)
    \/ /\ Len(heap) < MaxObjs
       /\ \E l \in ListIds(heap), other \in OperandVals(heap) :
             Fits(add(heap, l, other)) /\ Add(l, other)
    \/ /\ Len(heap) < MaxObjs
       /\ \E l \in ListIds(heap), other \in OperandVals(heap) :
             Fits(mul(heap, l, other)) /\ Mul(l, other)

Spec == Init /\ [][Next]_vars

\* ---------------------------------------------------------------- SpecOps
\* add, mul, slice and compare applied to two operand lists A = 1 and B = 2:
\* A holds integers and handles to B, B holds integers, each frozen or not
\* (a frozen A that holds B has a frozen B).
OpsInts == {IntV(0), IntV(1)}
OpsNums == {IntV(n) : n \in (0 - MaxOpsLen)..MaxOpsLen}
OpsOperands == OpsNums \cup {RefV(1), RefV(2), BoolV(0), BoolV(1), NoneV}
OpsBounds == OpsNums \cup {NoneV}

InitOps ==
    /\ \E a \in SeqsUpTo(OpsInts \cup {RefV(2)}, MaxOpsLen), b \in SeqsUpTo(OpsInts, MaxOpsLen - 1),
          fa \in BOOLEAN, fb \in BOOLEAN :
          /\ (fa /\ \E i \in 1..Len(a) : a[i] = RefV(2)) => fb
          /\ heap = <<ListPayload(fa, a), ListPayload(fb, b)>>
          /\ freezeReturned = {i \in 1..2 : <<fa, fb>>[i]}
    /\ last = NoOp
    /\ status = "running"
    /\ sliced = {}

\* one operation is applied to the operands drawn
NextOps ==
    \/ /\ last.op = "init"
       /\ \E start \in OpsBounds, stop \in OpsBounds, stride \in OpsBounds :
             Slice(1, start, stop, stride)
    \/ last.op = "init" /\ \E l \in 1..2, other \in OpsOperands : Add(l, other)
    \/ last.op = "init" /\ \E l \in 1..2, other \in OpsOperands : Mul(l, other)
    \/ last.op = "init" /\ \E l \in 1..2, other \in OpsOperands : Compare(l, other)

SpecOps == InitOps /\ [][NextOps]_vars

\* ---------------------------------------------------------------- claims
\* the payloads a payload holds handles to
Kids(h, i) == {h[i].content[j].n : j \in {j \in 1..Len(h[i].content) : h[i].content[j].k = "ref"}}

RECURSIVE Closure(_, _)
Closure(h, S) ==
    LET T == S \cup UNION {Kids(h, i) : i \in S} IN IF T = S THEN S ELSE Closure(h, T)

\* the payloads reachable from i through its elements, at any depth
Reach(h, i) == Closure(h, Kids(h, i))

Elems(content) == {content[j] : j \in 1..Len(content)}

\* C1: once l.freeze() has returned, set_at on l and on every list reachable
\* from l fails with CannotMutateImmutableValue, whatever the index (in range,
\* out of range, not an index) and the value.
C1_FreezePropagation ==
    \A r \in freezeReturned :
        \A m \in ({r} \cup Reach(heap, r)) \cap ListIds(heap) :
            \A index \in IndexVals, v \in ElemVals(heap) :
                set_at(heap, m, index, v).res = "CannotMutateImmutableValue"

\* a nested non-empty list below a list whose freeze returned, and a set_at
\* that has just been refused
C1_Witness ==
    /\ last.op = "set_at" /\ last.res = "CannotMutateImmutableValue"
    /\ \E r \in freezeReturned : \E m \in Reach(heap, r) \cap ListIds(heap) :
          m # r /\ Len(heap[m].content) > 0

\* C2: every list reachable from a frozen list through its elements is frozen
\* (the transitive-closure part of the claim; the flag itself is never cleared).
C2_FrozenTransitivelyClosed ==
    \A l \in ListIds(heap) :
        heap[l].frozen => \A m \in Reach(heap, l) \cap ListIds(heap) : heap[m].frozen

\* the monotonic part of C2 on its own: a frozen list keeps its flag and its
\* content in every step
C2_FrozenMonotonic ==
    [][\A l \in ListIds(heap) : heap[l].frozen => heap'[l] = heap[l]]_vars

\* the resolved index of the claim: negative indices count from the end
ResolvedIndex(index, len) == IF index.n < 0 THEN len + index.n ELSE index.n

\* tests::test_mutate_list: [1, 2, 3], set_at(1, 1), set_at(2, [2, 3])
C3_Example ==
    LET h0 == <<from(<<IntV(1), IntV(2), IntV(3)>>)>>
        h1 == set_at(h0, 1, IntV(1), IntV(1)).heap
        h2 == Append(h1, from(<<IntV(2), IntV(3)>>))
        h3 == set_at(h2, 1, IntV(2), RefV(2)).heap
    IN to_str(h3, 1) = "[1, 1, [2, 3]]"

\* C3: a set_at that succeeds puts the value at the resolved index of that
\* payload and changes nothing else: the other positions, the length, the
\* frozen flag and every other payload are as before.  Every holder is a
\* handle to this one payload, so every holder reads the new content.
C3_SetAtEffect ==
    /\ C3_Example
    /\ \A l \in ListIds(heap), index \in IndexVals, v \in ElemVals(heap) :
          LET r == set_at(heap, l, index, v)
              i == ResolvedIndex(index, Len(heap[l].content))
          IN r.res = "ok" =>
                /\ Len(r.heap) = Len(heap)
                /\ \A o \in Ids(heap) \ {l} : r.heap[o] = heap[o]
                /\ r.heap[l].kind = heap[l].kind
                /\ r.heap[l].frozen = heap[l].frozen /\ ~heap[l].frozen
                /\ Len(r.heap[l].content) = Len(heap[l].content)
                /\ r.heap[l].content[i + 1] = v
                /\ \A j \in 1..Len(heap[l].content) :
                      j # i + 1 => r.heap[l].content[j] = heap[l].content[j]

\* a set_at has succeeded on a two-element list that a second holder holds
C3_Witness ==
    /\ last.op = "set_at" /\ last.res = "ok"
    /\ \E l \in ListIds(heap), p \in Ids(heap) :
          p # l /\ RefV(l) \in Elems(heap[p].content) /\ Len(heap[l].content) = 2

\* C4: a set_at that returns an error leaves every payload as it was.
C4_FailedSetAtChangesNothing ==
    [][(last'.op = "set_at" /\ last'.res # "ok") => heap' = heap]_vars

\* an index out of range has been refused on a list that is not frozen
C4_Witness ==
    /\ last.op = "set_at" /\ last.res = "IndexOutOfBound"
    /\ \E l \in ListIds(heap) : ~heap[l].frozen /\ Len(heap[l].content) > 0

\* the elements at start, start + stride, ... above stop, for stride < 0
PySlice(content, start, stop, stride) ==
    [j \in 1..(((start - stop - 1) \div (0 - stride)) + 1) |-> content[start + (j - 1) * stride + 1]]

\* C5: with a negative stride and stop < start, slice returns the elements at
\* start, start + stride, ... strictly above stop, in that order.
C5_SliceNegativeStride ==
    [][\A start \in OpsBounds, stop \in OpsBounds, stride \in OpsBounds :
          LET r == convert_slice_indices(Len(heap[1].content), start, stop, stride) IN
          (last'.op = "slice" /\ Slice(1, start, stop, stride) /\ r.err = "ok" /\ r.stride < 0 /\ r.stop < r.start) =>
              heap'[Len(heap')].content = PySlice(heap[1].content, r.start, r.stop, r.stride)]_vars

\* C6 as claimed: a successful set_at on the source list, or on a list that is
\* an element of the source, leaves what a tuple sliced from it shows unchanged.
C6_SliceIndependentOfSource ==
    [][\A l \in ListIds(heap), index \in IndexVals, v \in ElemVals(heap) :
          (last'.op = "set_at" /\ last'.res = "ok" /\ SetAt(l, index, v)) =>
              \A p \in sliced :
                  (l = p[1] \/ RefV(l) \in Elems(heap[p[1]].content)) =>
                      /\ heap'[p[2]].kind = "tuple"
                      /\ to_str(heap', p[2]) = to_str(heap, p[2])]_vars

\* C6 amended: slice allocates a new Tuple and leaves the source as it was; a
\* later successful set_at on any list leaves the tuple's length and the
\* handles it holds unchanged, and changes what the tuple shows only when the
\* list written is reachable from the tuple.
C6_SliceSharesOnlyElements ==
    [][/\ (last'.op = "slice" /\ last'.res = "ok") =>
              /\ Len(heap') = Len(heap) + 1
              /\ SubSeq(heap', 1, Len(heap)) = heap
              /\ heap'[Len(heap')].kind = "tuple"
              /\ \E l \in ListIds(heap) : sliced' = sliced \cup {<<l, Len(heap')>>}
       /\ (last'.op = "set_at" /\ last'.res = "ok") =>
              \A p \in sliced :
                  /\ heap'[p[2]] = heap[p[2]]
                  /\ (\A i \in Ids(heap) : heap'[i] # heap[i] => i \notin Reach(heap, p[2])) =>
                        to_str(heap', p[2]) = to_str(heap, p[2])]_vars

\* a set_at has succeeded while a tuple sliced from a list shares a list
\* element with its source
C6_Witness ==
    /\ last.op = "set_at" /\ last.res = "ok"
    /\ \E p \in sliced : \E m \in ListIds(heap) :
          /\ RefV(m) \in Elems(heap[p[2]].content)
          /\ RefV(m) \in Elems(heap[p[1]].content)
          /\ m # p[1]

\* C7: add of a list returns a new unfrozen list holding this list's elements
\* and then the operand's, in order, and leaves both operands as they were;
\* any other operand fails with IncorrectParameterType and allocates nothing.
C7_AddConcatenates ==
    [][\A l \in 1..2, other \in OpsOperands :
          (last'.op = "add" /\ Add(l, other)) =>
              IF get_type(heap, other) = "list"
              THEN LET A == heap[l].content
                       B == heap[other.n].content
                       n == heap'[Len(heap')]
                   IN /\ last'.res = "ok"
                      /\ Len(heap') = Len(heap) + 1
                      /\ SubSeq(heap', 1, Len(heap)) = heap
                      /\ n.kind = "list" /\ ~n.frozen
                      /\ Len(n.content) = Len(A) + Len(B)
                      /\ \A i \in 1..Len(n.content) :
                            n.content[i] = IF i <= Len(A) THEN A[i] ELSE B[i - Len(A)]
              ELSE last'.res = "IncorrectParameterType" /\ heap' = heap]_vars

\* a frozen list and a different list have been added
C7_Witness ==
    /\ last.op = "add" /\ last.res = "ok" /\ Len(heap) = 3
    /\ heap[1].frozen /\ ~heap[2].frozen
    /\ Len(heap[3].content) > Len(heap[1].content)
    /\ Len(heap[1].content) > 0
    /\ heap[3].content # heap[2].content \o heap[1].content

\* C8: mul by an integer n returns a new unfrozen list that is this list n
\* times over (empty when n <= 0), a boolean counts as 0 or 1, any other
\* operand fails with IncorrectParameterType, and the list is as it was.
C8_MulRepeats ==
    [][\A l \in 1..2, other \in OpsOperands :
          (last'.op = "mul" /\ Mul(l, other)) =>
              IF other.k \in {"int", "bool"}
              THEN LET A == heap[l].content
                       n == heap'[Len(heap')]
                   IN /\ last'.res = "ok"
                      /\ Len(heap') = Len(heap) + 1
                      /\ SubSeq(heap', 1, Len(heap)) = heap
                      /\ n.kind = "list" /\ ~n.frozen
                      /\ Len(n.content) = IF other.n >= 1 THEN other.n * Len(A) ELSE 0
                      /\ \A i \in 1..Len(n.content) :
                            n.content[i] = A[((i - 1) % Len(A)) + 1]
              ELSE last'.res = "IncorrectParameterType" /\ heap' = heap]_vars

\* a list of two or more elements has been repeated twice or more
C8_Witness ==
    /\ last.op = "mul" /\ last.res = "ok" /\ Len(heap) = 3
    /\ \E l \in 1..2 :
          /\ Len(heap[l].content) >= 2
          /\ Len(heap[3].content) >= 2 * Len(heap[l].content)
          /\ SubSeq(heap[3].content, 1, Len(heap[l].content)) = heap[l].content

Min(S) == CHOOSE x \in S : \A y \in S : x <= y

\* the lexicographic order of the claim, over the element comparisons
Lexicographic(h, l, other) ==
    LET A == h[l].content
        B == h[other.n].content
        E(i) == compare_value(h, A[i], B[i], {<<l, other.n>>})
        D == {i \in 1..Min({Len(A), Len(B)}) : E(i) # "Equal"}
    IN IF D # {} THEN E(Min(D)) ELSE IntCompare(Len(A), Len(B))

\* C9: compare with a list is decided by the first position whose elements
\* do not compare Equal, else by the lengths; it is the reverse of the
\* comparison the other way round; compare with a value that is no list gives
\* the order of the kinds.
C9_CompareLexicographic ==
    [][\A l \in 1..2, other \in OpsOperands :
          (last'.op = "compare" /\ Compare(l, other)) =>
              IF get_type(heap, other) = "list"
              THEN /\ last'.res = Lexicographic(heap, l, other)
                   /\ compare(heap, other.n, RefV(l)) = Reverse(last'.res)
              ELSE /\ last'.res = IntCompare(KindRank("list"), KindRank(get_type(heap, other)))
                   /\ status' = "running"]_vars

\* a list has compared Less than a list it is a proper prefix of
C9_Witness ==
    /\ last.op = "compare" /\ last.res = "Less"
    /\ Len(heap[1].content) > 0
    /\ Len(heap[1].content) < Len(heap[2].content)
    /\ heap[1].content = SubSeq(heap[2].content, 1, Len(heap[1].content))
    /\ RefV(2) \notin Elems(heap[1].content)

\* C10: freeze() returns on every list that can be built, with every list
\* reachable from it frozen.
C10_FreezeReturns ==
    last.op = "freeze" =>
        /\ last.res = "ok" /\ status = "running"
        /\ \A l \in freezeReturned : \A m \in Reach(heap, l) \cap ListIds(heap) : heap[m].frozen

====
